---- MODULE Spec2Model ----
(***************************************************************************)
(* Model of the incremental SHA-2 engine: Sha2Context<P> of src/context.rs *)
(* over the parameter sets Sha256Params and Sha512Params of src/params.rs. *)
(*                                                                         *)
(* A word (u32, u64) and the u128 bit-length counter are big-endian        *)
(* sequences of 16-bit limbs, so that every value keeps its exact width:   *)
(* u32 = 2 limbs, u64 = 4 limbs, u128 = 8 limbs.  A byte is 0..255.  An    *)
(* array is a sequence read and written with the source's 0-based indices  *)
(* through at and set.                                                     *)
(***************************************************************************)
EXTENDS Integers, Sequences, FiniteSets, TLC

(***************************************************************************)
(* Arrays and slices                                                       *)
(***************************************************************************)
\* a[i]
at(a, i) == a[i + 1]

\* a[i] = v
set(a, i, v) == [a EXCEPT ![i + 1] = v]

\* &a[from..]
slice_from(a, from) == SubSeq(a, from + 1, Len(a))

\* F(v) for the value v of e: e is evaluated once, before F uses it
Then(e, F(_)) == CHOOSE r \in { F(v) : v \in {e} } : TRUE

RECURSIVE LoopRange(_, _, _, _)
\* s after the iterations t = lo, ..., hi - 1 of a loop s = Body(s, t), for
\* hi > lo; split in halves to keep the evaluation shallow
LoopRange(Body(_, _), s, lo, hi) ==
    IF hi = lo + 1 THEN Body(s, lo)
    ELSE CHOOSE r \in
           { LoopRange(Body, half, mid, hi) :
               half \in { LoopRange(Body, s, lo, mid) : mid \in {(lo + hi) \div 2} },
               mid \in {(lo + hi) \div 2} } : TRUE

\* s after the iterations t = lo, ..., hi - 1 of a loop s = Body(s, t)
Loop(Body(_, _), s, lo, hi) ==
    CHOOSE r \in
      { IF h <= l THEN v ELSE LoopRange(Body, v, l, h) :
          v \in {s}, l \in {lo}, h \in {hi} } : TRUE

RECURSIVE repeat(_, _)
\* [v; n]
repeat(v, n) ==
    IF n = 0 THEN << >>
    ELSE IF n % 2 = 1 THEN Append(repeat(v, n - 1), v)
    ELSE Then(repeat(v, n \div 2), LAMBDA half : half \o half)

(***************************************************************************)
(* Word capability (src/params.rs Sha2Word, src/ops.rs Rotr)               *)
(***************************************************************************)
\* a & b on 4-bit naturals, tabulated: entry a * 16 + b + 1 is a & b
And4 ==
    << 0, 0, 0, 0, 0, 0, 0, 0, 0, 0, 0, 0, 0, 0, 0, 0, 0, 1, 0, 1, 0, 1, 0, 1, 0, 1, 0, 1, 0, 1, 0, 1, 0, 0, 2, 2, 0, 0, 2, 2, 0, 0, 2, 2, 0, 0, 2, 2, 0, 1, 2, 3, 0, 1, 2, 3, 0, 1, 2, 3, 0, 1, 2, 3, 0, 0, 0, 0, 4, 4, 4, 4, 0, 0, 0, 0, 4, 4, 4, 4, 0, 1, 0, 1, 4, 5, 4, 5, 0, 1, 0, 1, 4, 5, 4, 5, 0, 0, 2, 2, 4, 4, 6, 6, 0, 0, 2, 2, 4, 4, 6, 6, 0, 1, 2, 3, 4, 5, 6, 7, 0, 1, 2, 3, 4, 5, 6, 7, 0, 0, 0, 0, 0, 0, 0, 0, 8, 8, 8, 8, 8, 8, 8, 8, 0, 1, 0, 1, 0, 1, 0, 1, 8, 9, 8, 9, 8, 9, 8, 9, 0, 0, 2, 2, 0, 0, 2, 2, 8, 8, 10, 10, 8, 8, 10, 10, 0, 1, 2, 3, 0, 1, 2, 3, 8, 9, 10, 11, 8, 9, 10, 11, 0, 0, 0, 0, 4, 4, 4, 4, 8, 8, 8, 8, 12, 12, 12, 12, 0, 1, 0, 1, 4, 5, 4, 5, 8, 9, 8, 9, 12, 13, 12, 13, 0, 0, 2, 2, 4, 4, 6, 6, 8, 8, 10, 10, 12, 12, 14, 14, 0, 1, 2, 3, 4, 5, 6, 7, 8, 9, 10, 11, 12, 13, 14, 15 >>

\* a & b on one 16-bit limb, a nibble at a time
LimbAnd(a, b) ==
      And4[(a \div 4096) * 16 + (b \div 4096) + 1] * 4096
    + And4[((a \div 256) % 16) * 16 + ((b \div 256) % 16) + 1] * 256
    + And4[((a \div 16) % 16) * 16 + ((b \div 16) % 16) + 1] * 16
    + And4[(a % 16) * 16 + (b % 16) + 1]

\* a | b on one limb
LimbOr(a, b) == a + b - LimbAnd(a, b)

\* a ^ b on one limb
LimbXor(a, b) == a + b - 2 * LimbAnd(a, b)

RECURSIVE Limbwise(_, _, _, _)
\* limbs 1..n of x and y combined limb by limb
Limbwise(Op(_, _), x, y, n) ==
    IF n = 0 THEN << >>
    ELSE Append(Limbwise(Op, x, y, n - 1), Op(x[n], y[n]))

\* x & y
and(x, y) == Limbwise(LimbAnd, x, y, Len(x))

\* x | y
or(x, y) == Limbwise(LimbOr, x, y, Len(x))

\* x ^ y
xor(x, y) == Limbwise(LimbXor, x, y, Len(x))

\* !a on one limb
LimbNot(a, b) == 65535 - a

\* !x
not(x) == Limbwise(LimbNot, x, x, Len(x))

RECURSIVE ShrLimbs(_, _, _, _, _)
\* limbs 1..n of x >> (16 * q + r), with p = 2^r and c = 2^(16 - r)
ShrLimbs(x, q, p, c, n) ==
    IF n = 0 THEN << >>
    ELSE Append(ShrLimbs(x, q, p, c, n - 1),
                  (IF n - q >= 1 THEN x[n - q] \div p ELSE 0)
                + (IF n - q - 1 >= 1 THEN (x[n - q - 1] % p) * c ELSE 0))

\* x >> n (logical), 0 <= n < width
shr(x, n) == ShrLimbs(x, n \div 16, 2 ^ (n % 16), 2 ^ (16 - (n % 16)), Len(x))

RECURSIVE ShlLimbs(_, _, _, _, _)
\* limbs 1..n of x << (16 * q + r), with p = 2^r and c = 2^(16 - r); the bits
\* shifted out are lost
ShlLimbs(x, q, p, c, n) ==
    IF n = 0 THEN << >>
    ELSE Append(ShlLimbs(x, q, p, c, n - 1),
                  (IF n + q <= Len(x) THEN (x[n + q] % c) * p ELSE 0)
                + (IF n + q + 1 <= Len(x) THEN x[n + q + 1] \div c ELSE 0))

\* x << n, 0 <= n < width
shl(x, n) == ShlLimbs(x, n \div 16, 2 ^ (n % 16), 2 ^ (16 - (n % 16)), Len(x))

\* Rotr::rotr: (self >> by) | (self << (width - by))
rotr(x, by) == or(shr(x, by), shl(x, 16 * Len(x) - by))

RECURSIVE AddLimbs(_, _, _, _)
\* limbs 1..i of x + y + carry, as << carry out, sum >>
AddLimbs(x, y, i, carry) ==
    IF i = 0 THEN << carry, << >> >>
    ELSE Then(x[i] + y[i] + carry, LAMBDA s :
           Then(AddLimbs(x, y, i - 1, s \div 65536), LAMBDA rest :
             << rest[1], Append(rest[2], s % 65536) >>))

\* WrappingAdd::wrapping_add: addition modulo 2^width
wrapping_add(x, y) == AddLimbs(x, y, Len(x), 0)[2]

\* u128::checked_add: << TRUE, sum >>, or << FALSE, _ >> on overflow
checked_add(x, y) ==
    Then(AddLimbs(x, y, Len(x), 0), LAMBDA r : << r[1] = 0, r[2] >>)

\* v as an n-limb integer, for v < 65536 (v as u32, v as u64, v as u128)
cast(v, n) == Append(repeat(0, n - 1), v)

\* x as u8
as_u8(x) == x[Len(x)] % 256

(***************************************************************************)
(* Parameter sets (src/params.rs)                                          *)
(***************************************************************************)
Variants == {"Sha256Params", "Sha512Params"}

\* limbs of P::Word: u32 or u64
WordLimbs(P) == IF P = "Sha256Params" THEN 2 ELSE 4

\* Sha2Word::ZERO
ZERO(P) == repeat(0, WordLimbs(P))

MSG_BLOCK_SIZE(P) == IF P = "Sha256Params" THEN 64 ELSE 128

HASH_LEN_BYTES(P) == IF P = "Sha256Params" THEN 32 ELSE 64

Sha256_H0 ==
    << <<27145, 58983>>, <<47975, 44677>>, <<15470, 62322>>, <<42319, 62778>>,
       <<20750, 21119>>, <<39685, 26764>>, <<8067, 55723>>, <<23520, 52505>> >>

Sha256_K ==
    << <<17034, 12184>>, <<28983, 17553>>, <<46528, 64463>>, <<59829, 56229>>,
       <<14678, 49755>>, <<23025, 4593>>, <<37439, 33444>>, <<43804, 24277>>,
       <<55303, 43672>>, <<4739, 23297>>, <<9265, 34238>>, <<21772, 32195>>,
       <<29374, 23924>>, <<32990, 45566>>, <<39900, 1703>>, <<49563, 61812>>,
       <<58523, 27073>>, <<61374, 18310>>, <<4033, 40390>>, <<9228, 41420>>,
       <<11753, 11375>>, <<19060, 33962>>, <<23728, 43484>>, <<30457, 35034>>,
       <<38974, 20818>>, <<43057, 50797>>, <<45059, 10184>>, <<48985, 32711>>,
       <<50912, 3059>>, <<54695, 37191>>, <<1738, 25425>>, <<5161, 10599>>,
       <<10167, 2693>>, <<11803, 8504>>, <<19756, 28156>>, <<21304, 3347>>,
       <<25866, 29524>>, <<30314, 2747>>, <<33218, 51502>>, <<37490, 11397>>,
       <<41663, 59553>>, <<43034, 26187>>, <<49739, 35696>>, <<51052, 20899>>,
       <<53650, 59417>>, <<54937, 1572>>, <<62478, 13701>>, <<4202, 41072>>,
       <<6564, 49430>>, <<7735, 27656>>, <<10056, 30540>>, <<13488, 48309>>,
       <<14620, 3251>>, <<20184, 43594>>, <<23452, 51791>>, <<26670, 28659>>,
       <<29839, 33518>>, <<30885, 25455>>, <<33992, 30740>>, <<36039, 520>>,
       <<37054, 65530>>, <<42064, 27883>>, <<48889, 41975>>, <<50801, 30962>> >>

Sha512_H0 ==
    << <<27145, 58983, 62396, 51464>>, <<47975, 44677, 33994, 42811>>,
       <<15470, 62322, 65172, 63531>>, <<42319, 62778, 24349, 14065>>,
       <<20750, 21119, 44518, 33489>>, <<39685, 26764, 11070, 27679>>,
       <<8067, 55723, 64321, 48491>>, <<23520, 52505, 4990, 8569>> >>

Sha512_K ==
    << <<17034, 12184, 55080, 44578>>, <<28983, 17553, 9199, 26061>>,
       <<46528, 64463, 60493, 15151>>, <<59829, 56229, 33161, 56252>>,
       <<14678, 49755, 62280, 46392>>, <<23025, 4593, 46597, 53273>>,
       <<37439, 33444, 44825, 20379>>, <<43804, 24277, 55917, 33048>>,
       <<55303, 43672, 41731, 578>>, <<4739, 23297, 17776, 28606>>,
       <<9265, 34238, 20196, 45708>>, <<21772, 32195, 54783, 46306>>,
       <<29374, 23924, 62075, 35183>>, <<32990, 45566, 15126, 38577>>,
       <<39900, 1703, 9671, 4661>>, <<49563, 61812, 53097, 9876>>,
       <<58523, 27073, 40689, 19154>>, <<61374, 18310, 14415, 9699>>,
       <<4033, 40390, 35724, 54709>>, <<9228, 41420, 30636, 40037>>,
       <<11753, 11375, 22827, 629>>, <<19060, 33962, 28326, 58499>>,
       <<23728, 43484, 48449, 64468>>, <<30457, 35034, 33553, 21429>>,
       <<38974, 20818, 61030, 57259>>, <<43057, 50797, 11700, 12816>>,
       <<45059, 10184, 39163, 8511>>, <<48985, 32711, 48879, 3812>>,
       <<50912, 3059, 15784, 36802>>, <<54695, 37191, 37642, 42789>>,
       <<1738, 25425, 57347, 33391>>, <<5161, 10599, 2574, 28272>>,
       <<10167, 2693, 18130, 12284>>, <<11803, 8504, 23590, 51494>>,
       <<19756, 28156, 23236, 10989>>, <<21304, 3347, 40341, 46047>>,
       <<25866, 29524, 35759, 25566>>, <<30314, 2747, 15479, 45736>>,
       <<33218, 51502, 18413, 44774>>, <<37490, 11397, 5250, 13627>>,
       <<41663, 59553, 19697, 868>>, <<43034, 26187, 48194, 12289>>,
       <<49739, 35696, 53496, 38801>>, <<51052, 20899, 1620, 48688>>,
       <<53650, 59417, 55023, 21016>>, <<54937, 1572, 21861, 43280>>,
       <<62478, 13701, 22385, 8234>>, <<4202, 41072, 12987, 53688>>,
       <<6564, 49430, 47314, 53448>>, <<7735, 27656, 20801, 43859>>,
       <<10056, 30540, 57230, 60313>>, <<13488, 48309, 57755, 18600>>,
       <<14620, 3251, 50633, 23139>>, <<20184, 43594, 58177, 35531>>,
       <<23452, 51791, 30563, 58227>>, <<26670, 28659, 54962, 47267>>,
       <<29839, 33518, 24047, 45820>>, <<30885, 25455, 17175, 12128>>,
       <<33992, 30740, 41456, 43890>>, <<36039, 520, 6756, 14828>>,
       <<37054, 65530, 9059, 7720>>, <<42064, 27883, 56962, 48617>>,
       <<48889, 41975, 45766, 30997>>, <<50801, 30962, 58226, 21291>>,
       <<51751, 16078, 59942, 24988>>, <<53638, 47303, 8640, 49671>>,
       <<60122, 32214, 52704, 60190>>, <<62845, 20351, 61038, 53624>>,
       <<1776, 26538, 29207, 28602>>, <<2659, 32197, 41672, 39078>>,
       <<4415, 38916, 48889, 3502>>, <<7025, 2869, 4892, 18203>>,
       <<10459, 30709, 8964, 32132>>, <<13002, 43899, 16583, 9363>>,
       <<15518, 48650, 5577, 48828>>, <<17181, 26564, 39952, 3404>>,
       <<19653, 54462, 52030, 17078>>, <<22911, 10652, 64613, 32298>>,
       <<24523, 28587, 15062, 64236>>, <<27716, 6540, 19015, 22551>> >>

H0(P) == IF P = "Sha256Params" THEN Sha256_H0 ELSE Sha512_H0

K(P) == IF P = "Sha256Params" THEN Sha256_K ELSE Sha512_K

\* new_msg_block: [0u8; MSG_BLOCK_SIZE]
new_msg_block(P) == repeat(0, MSG_BLOCK_SIZE(P))

RECURSIVE ParseBytes(_, _, _)
\* (src[0] as W) << (8 * (n - 1)) | ... | (src[n - 1] as W), for an l-limb W
ParseBytes(src, n, l) ==
    IF n = 1 THEN cast(at(src, 0), l)
    ELSE or(shl(cast(at(src, 0), l), 8 * (n - 1)),
            ParseBytes(slice_from(src, 1), n - 1, l))

\* parse_word: big-endian, of 4 bytes (u32) or 8 bytes (u64); the assert on
\* src.len() is the caller's obligation (parse_word_ok)
parse_word(P, src) == ParseBytes(src, 2 * WordLimbs(P), WordLimbs(P))

\* parse_word_ok asserting 8 bytes for every word width: a fault that
\* aborts the 32-bit compression at its last word
parse_word_ok_wide(P, src) == Len(src) >= 8

\* assert!(src.len() >= 4) / assert!(src.len() >= 8)
parse_word_ok(P, src) == Len(src) >= 2 * WordLimbs(P)

\* WriteByte taking the bytes of a word from its low end: a fault that
\* serializes little-endian
WriteByteLittle(P, ihash, dst, i) ==
    set(dst, i,
        IF P = "Sha256Params"
        THEN as_u8(shr(at(ihash, i \div 4), 8 * (i % 4)))
        ELSE as_u8(shr(at(ihash, i \div 8), 8 * (i % 8))))

\* dst[i] = (ihash[i >> 2] >> (8 * (3 - (i & 3)))) as u8, and for u64
\* dst[i] = (ihash[i >> 3] >> 8 * (7 - (i % 8))) as u8
WriteByte(P, ihash, dst, i) ==
    set(dst, i,
        IF P = "Sha256Params"
        THEN as_u8(shr(at(ihash, i \div 4), 8 * (3 - (i % 4))))
        ELSE as_u8(shr(at(ihash, i \div 8), 8 * (7 - (i % 8)))))

\* write_hash: for i in 0..Self::HASH_LEN_BYTES
write_hash(P, dst, ihash) ==
    Loop(LAMBDA d, i : WriteByte(P, ihash, d, i), dst, 0, HASH_LEN_BYTES(P))

(***************************************************************************)
(* The engine's mixing functions (src/context.rs): the ones the generic    *)
(* code calls, whatever the parameter set                                  *)
(***************************************************************************)
upper_sigma0(word) == xor(xor(rotr(word, 2), rotr(word, 13)), rotr(word, 22))

upper_sigma1(word) == xor(xor(rotr(word, 6), rotr(word, 11)), rotr(word, 25))

lower_sigma0(word) == xor(xor(rotr(word, 7), rotr(word, 18)), shr(word, 3))

lower_sigma1(word) == xor(xor(rotr(word, 17), rotr(word, 19)), shr(word, 10))

ch(x, y, z) == xor(and(x, y), and(not(x), z))

\* maj that lets z alone decide: a fault in the majority function
maj_or(x, y, z) == or(and(x, y), z)

\* maj as the parity of its arguments: a fault in the round function
maj_parity(x, y, z) == xor(xor(x, y), z)

maj(x, y, z) == or(and(x, or(y, z)), and(y, z))

(***************************************************************************)
(* process_message_block                                                   *)
(***************************************************************************)
\* w[t] = P::parse_word(&msg_block_bytes[(t * 4)..])
LoadWord(P, msg_block_bytes, w, t) ==
    set(w, t, parse_word(P, slice_from(msg_block_bytes, t * 4)))

\* w[t] = lower_sigma1(w[t - 2]) + w[t - 7] + lower_sigma0(w[t - 15]) + w[t - 16]
ExpandWord(w, t) ==
    set(w, t,
        wrapping_add(
          wrapping_add(
            wrapping_add(lower_sigma1(at(w, t - 2)), at(w, t - 7)),
            lower_sigma0(at(w, t - 15))),
          at(w, t - 16)))

\* temp1 = h + upper_sigma1(e) + ch(e, f, g) + K[t] + w[t]
temp1(P, w, v, t) ==
    wrapping_add(
      wrapping_add(
        wrapping_add(
          wrapping_add(v[8], upper_sigma1(v[5])),
          ch(v[5], v[6], v[7])),
        at(K(P), t)),
      at(w, t))

\* temp2 = upper_sigma0(a) + maj(a, b, c)
temp2(v) == wrapping_add(upper_sigma0(v[1]), maj(v[1], v[2], v[3]))

\* one round on v = << a, b, c, d, e, f, g, h >>
Round(P, w, v, t) ==
    Then(temp1(P, w, v, t), LAMBDA t1 :
      << wrapping_add(t1, temp2(v)), v[1], v[2], v[3],
         wrapping_add(v[4], t1), v[5], v[6], v[7] >>)

\* the message schedule w of one block: for t in 0..16, then for t in 16..64
Schedule(P, msg_block_bytes) ==
    Loop(ExpandWord,
         Loop(LAMBDA w, t : LoadWord(P, msg_block_bytes, w, t),
              repeat(ZERO(P), 64), 0, 16),
         16, 64)

\* the intermediate hash after process_message_block: for t in 0..64, then
\* intermediate_hash[i] = intermediate_hash[i].wrapping_add(a..h)
Compress(P, intermediate_hash, msg_block_bytes) ==
    Then(Schedule(P, msg_block_bytes),
         LAMBDA w :
           Limbwise(wrapping_add, intermediate_hash,
                    Loop(LAMBDA v, t : Round(P, w, v, t),
                         intermediate_hash, 0, 64),
                    8))

(***************************************************************************)
(* Sha2Context (src/context.rs).  An operation works on a machine          *)
(*   [self, ret, calls, panicked]:                                         *)
(* self is the struct, ret the Result of the call ("Ok" or the error's     *)
(* status), calls the log of the process_message_block calls made (cursor  *)
(* and block at the call), panicked whether a bounds check or an assert    *)
(* aborted the call.                                                       *)
(***************************************************************************)
\* impl Sha2Corrupted { fn into_result }: Ok(value) or Err(Error(self))
into_result(corrupted) == IF corrupted = "Success" THEN "Ok" ELSE corrupted

\* Sha2Context::new
new(P) ==
    [intermediate_hash |-> H0(P),
     length            |-> cast(0, 8),
     msg_block_idx     |-> 0,
     computed          |-> FALSE,
     corrupted         |-> "Success",
     msg_block         |-> new_msg_block(P)]

\* the machine entering a call on self
Call(self) == [self |-> self, ret |-> "Ok", calls |-> << >>, panicked |-> FALSE]

\* reset that leaves the bit-length counter as it is
reset_keeps_length(P, m) ==
    [m EXCEPT !.self.msg_block_idx = 0,
              !.self.intermediate_hash = H0(P),
              !.self.computed = FALSE,
              !.self.corrupted = "Success",
              !.ret = "Ok"]

\* Sha2Context::reset
reset(P, m) ==
    LET self == [m.self EXCEPT !.length = cast(0, 8),
                               !.msg_block_idx = 0,
                               !.intermediate_hash = H0(P),
                               !.computed = FALSE,
                               !.corrupted = "Success"]
    IN  [m EXCEPT !.self = self, !.ret = into_result(self.corrupted)]

\* Sha2Context::process_message_block
process_message_block(P, m) ==
    IF \E t \in 0..15 : ~parse_word_ok(P, slice_from(m.self.msg_block, t * 4))
    THEN [m EXCEPT !.panicked = TRUE]
    ELSE [m EXCEPT
            !.self.intermediate_hash = Compress(P, @, m.self.msg_block),
            !.self.msg_block_idx = 0,
            !.calls = Append(@, [idx   |-> m.self.msg_block_idx,
                                 block |-> m.self.msg_block]),
            !.ret = into_result(m.self.corrupted)]

\* self.msg_block.as_mut()[self.msg_block_idx] = byte; self.msg_block_idx += 1
\* (the index is bounds-checked)
put_byte(P, m, byte) ==
    IF m.self.msg_block_idx >= MSG_BLOCK_SIZE(P)
    THEN [m EXCEPT !.panicked = TRUE]
    ELSE [m EXCEPT !.self.msg_block = set(@, m.self.msg_block_idx, byte),
                   !.self.msg_block_idx = @ + 1]

\* input_byte adding 1 to the counter for a byte: a fault that counts bytes
\* where bits are due
input_byte_counting_bytes(P, m, byte) ==
    IF m.panicked \/ m.brk \/ m.early THEN m
    ELSE Then(put_byte(P, m, byte), LAMBDA m1 :
           IF m1.panicked THEN m1
           ELSE Then(checked_add(m1.self.length, cast(1, 8)), LAMBDA new_length :
                  IF ~new_length[1]
                  THEN [m1 EXCEPT !.self.corrupted = "StateError", !.brk = TRUE]
                  ELSE IF m1.self.msg_block_idx = MSG_BLOCK_SIZE(P)
                  THEN Then(process_message_block(
                              P, [m1 EXCEPT !.self.length = new_length[2]]),
                            LAMBDA m2 : [m2 EXCEPT !.early = (m2.ret # "Ok")])
                  ELSE [m1 EXCEPT !.self.length = new_length[2]]))

\* input_byte with a wrapping counter: a fault that lets the bit length
\* overflow silently
input_byte_wrapping(P, m, byte) ==
    IF m.panicked \/ m.brk \/ m.early THEN m
    ELSE Then(put_byte(P, m, byte), LAMBDA m1 :
           IF m1.panicked THEN m1
           ELSE Then(wrapping_add(m1.self.length, cast(8, 8)), LAMBDA new_length :
                  IF m1.self.msg_block_idx = MSG_BLOCK_SIZE(P)
                  THEN Then(process_message_block(
                              P, [m1 EXCEPT !.self.length = new_length]),
                            LAMBDA m2 : [m2 EXCEPT !.early = (m2.ret # "Ok")])
                  ELSE [m1 EXCEPT !.self.length = new_length]))

\* one iteration of the while loop of input, on a machine with the fields
\* brk (the loop was left by break) and early (the call returned by ?)
input_byte(P, m, byte) ==
    IF m.panicked \/ m.brk \/ m.early THEN m
    ELSE Then(put_byte(P, m, byte), LAMBDA m1 :
           IF m1.panicked THEN m1
           ELSE Then(checked_add(m1.self.length, cast(8, 8)), LAMBDA new_length :
                  IF ~new_length[1]
                  THEN [m1 EXCEPT !.self.corrupted = "StateError", !.brk = TRUE]
                  ELSE IF m1.self.msg_block_idx = MSG_BLOCK_SIZE(P)
                  THEN Then(process_message_block(
                              P, [m1 EXCEPT !.self.length = new_length[2]]),
                            LAMBDA m2 : [m2 EXCEPT !.early = (m2.ret # "Ok")])
                  ELSE [m1 EXCEPT !.self.length = new_length[2]]))

\* input_loop with the cursor rewound to 0 on entry: a fault that makes the
\* state depend on how the message was cut
input_loop_rewound(P, m, msg_chunk) ==
    Then(Loop(LAMBDA s, i : input_byte(P, s, at(msg_chunk, i)),
              [self |-> [m.self EXCEPT !.msg_block_idx = 0], ret |-> m.ret,
               calls |-> m.calls, panicked |-> m.panicked,
               brk |-> FALSE, early |-> FALSE],
              0, Len(msg_chunk)),
         LAMBDA w :
           [self |-> w.self, calls |-> w.calls, panicked |-> w.panicked,
            ret |-> IF w.panicked \/ w.early THEN w.ret
                    ELSE into_result(w.self.corrupted)])

\* the while loop of input over msg_chunk
input_loop(P, m, msg_chunk) ==
    Then(Loop(LAMBDA s, i : input_byte(P, s, at(msg_chunk, i)),
              [self |-> m.self, ret |-> m.ret, calls |-> m.calls,
               panicked |-> m.panicked, brk |-> FALSE, early |-> FALSE],
              0, Len(msg_chunk)),
         LAMBDA w :
           [self |-> w.self, calls |-> w.calls, panicked |-> w.panicked,
            ret |-> IF w.panicked \/ w.early THEN w.ret
                    ELSE into_result(w.self.corrupted)])

\* input with the state checks ahead of the empty-chunk check: a fault that
\* makes an empty chunk report and set corruption
input_checks_first(P, m, msg_chunk) ==
    Then(IF m.self.computed
         THEN [m EXCEPT !.self.corrupted = "StateError"]
         ELSE m,
         LAMBDA m1 :
           IF into_result(m1.self.corrupted) # "Ok"
           THEN [m1 EXCEPT !.ret = into_result(m1.self.corrupted)]
           ELSE IF Len(msg_chunk) = 0 THEN [m1 EXCEPT !.ret = "Ok"]
           ELSE input_loop(P, m1, msg_chunk))

\* input that fails on a finalized context without recording the corruption
input_unrecorded(P, m, msg_chunk) ==
    IF Len(msg_chunk) = 0 THEN [m EXCEPT !.ret = "Ok"]
    ELSE IF m.self.computed THEN [m EXCEPT !.ret = "StateError"]
    ELSE IF into_result(m.self.corrupted) # "Ok"
    THEN [m EXCEPT !.ret = into_result(m.self.corrupted)]
    ELSE input_loop(P, m, msg_chunk)

\* input that records StateError on every context that takes no more bytes,
\* a corrupted one included: a fault that overwrites the recorded status
input_overwriting(P, m, msg_chunk) ==
    IF Len(msg_chunk) = 0 THEN [m EXCEPT !.ret = "Ok"]
    ELSE IF m.self.computed \/ m.self.corrupted # "Success"
    THEN [m EXCEPT !.self.corrupted = "StateError",
                   !.ret = into_result("StateError")]
    ELSE input_loop(P, m, msg_chunk)

\* input that looks at computed alone before its loop: a fault that lets a
\* corrupted context take bytes at the cursor the overflow left
input_ignoring_corruption(P, m, msg_chunk) ==
    IF Len(msg_chunk) = 0 THEN [m EXCEPT !.ret = "Ok"]
    ELSE IF m.self.computed
    THEN [m EXCEPT !.self.corrupted = "StateError",
                   !.ret = into_result("StateError")]
    ELSE input_loop(P, m, msg_chunk)

\* Sha2Context::input
input(P, m, msg_chunk) ==
    IF Len(msg_chunk) = 0 THEN [m EXCEPT !.ret = "Ok"]
    ELSE Then(IF m.self.computed
              THEN [m EXCEPT !.self.corrupted = "StateError"]
              ELSE m,
              LAMBDA m1 :
                IF into_result(m1.self.corrupted) # "Ok"
                THEN [m1 EXCEPT !.ret = into_result(m1.self.corrupted)]
                ELSE input_loop(P, m1, msg_chunk))

\* zero_fill that moves the cursor and writes nothing: a fault that takes
\* the buffer to be zero already
zero_fill_skipping(P, m, end) ==
    [m EXCEPT !.self.msg_block_idx = IF @ < end THEN end ELSE @]

\* while self.msg_block_idx < end { msg_block[msg_block_idx] = 0; msg_block_idx += 1 }
zero_fill(P, m, end) ==
    Loop(LAMBDA s, i : IF s.panicked THEN s ELSE put_byte(P, s, 0),
         m, m.self.msg_block_idx, end)

\* self.msg_block.as_mut()[i] = byte (bounds-checked)
store(P, m, i, byte) ==
    IF m.panicked THEN m
    ELSE IF i >= MSG_BLOCK_SIZE(P) THEN [m EXCEPT !.panicked = TRUE]
    ELSE [m EXCEPT !.self.msg_block = set(@, i, byte)]

\* msg_block[56] = (length >> 56) as u8; ...; msg_block[63] = length as u8
store_length(P, m) ==
    Loop(LAMBDA s, i : store(P, s, 56 + i,
                             as_u8(shr(s.self.length, 8 * (7 - i)))),
         m, 0, 8)

\* pad_first with the threshold one byte late: a block with its cursor at
\* MSG_BLOCK_SIZE - 8 is taken to have room for the pad byte and the length
pad_first_late(P, m, pad_byte) ==
    IF m.self.msg_block_idx > MSG_BLOCK_SIZE(P) - 8
    THEN Then(put_byte(P, m, pad_byte), LAMBDA m1 :
           IF m1.panicked THEN m1
           ELSE Then(zero_fill(P, m1, MSG_BLOCK_SIZE(P)), LAMBDA m2 :
                  IF m2.panicked THEN m2 ELSE process_message_block(P, m2)))
    ELSE put_byte(P, m, pad_byte)

\* the first part of pad_message: the pad byte, and when the length does not
\* fit behind it, zeros to the end of the block and process_message_block
pad_first(P, m, pad_byte) ==
    IF m.self.msg_block_idx >= MSG_BLOCK_SIZE(P) - 8
    THEN Then(put_byte(P, m, pad_byte), LAMBDA m1 :
           IF m1.panicked THEN m1
           ELSE Then(zero_fill(P, m1, MSG_BLOCK_SIZE(P)), LAMBDA m2 :
                  IF m2.panicked THEN m2 ELSE process_message_block(P, m2)))
    ELSE put_byte(P, m, pad_byte)

\* Sha2Context::pad_message
pad_message(P, m, pad_byte) ==
    Then(pad_first(P, m, pad_byte), LAMBDA padded :
      IF padded.panicked \/ padded.ret # "Ok" THEN padded
      ELSE Then(zero_fill(P, padded, MSG_BLOCK_SIZE(P) - 8), LAMBDA m3 :
             Then(store_length(P, m3), LAMBDA m4 :
               IF m4.panicked THEN m4 ELSE process_message_block(P, m4))))

\* finalize that does not set computed
finalize_unmarked(P, m, pad_byte) ==
    Then(pad_message(P, m, pad_byte), LAMBDA m1 :
      IF m1.panicked \/ m1.ret # "Ok" THEN m1
      ELSE [m1 EXCEPT !.self.msg_block = repeat(0, MSG_BLOCK_SIZE(P)),
                      !.self.length = cast(0, 8),
                      !.ret = "Ok"])

\* finalize without the clean-up of the block buffer and the counter: a
\* fault that leaves the padded block and the length behind
finalize_dirty(P, m, pad_byte) ==
    Then(pad_message(P, m, pad_byte), LAMBDA m1 :
      IF m1.panicked \/ m1.ret # "Ok" THEN m1
      ELSE [m1 EXCEPT !.self.computed = TRUE, !.ret = "Ok"])

\* Sha2Context::finalize
finalize(P, m, pad_byte) ==
    Then(pad_message(P, m, pad_byte), LAMBDA m1 :
      IF m1.panicked \/ m1.ret # "Ok" THEN m1
      ELSE [m1 EXCEPT !.self.msg_block = repeat(0, MSG_BLOCK_SIZE(P)),
                      !.self.length = cast(0, 8),
                      !.self.computed = TRUE,
                      !.ret = "Ok"])

FINAL_BITS_MASKS == << 0, 128, 192, 224, 240, 248, 252, 254 >>

FINAL_BITS_MASKBIT == << 128, 64, 32, 16, 8, 4, 2, 1 >>

\* the pad byte built from the low bits of msg_bits: a fault that takes the
\* message bits from the wrong end of the byte
final_pad_byte_low(msg_bits, msg_bits_count) ==
    (msg_bits % (2 ^ msg_bits_count)) + 2 ^ msg_bits_count

\* (msg_bits & FINAL_BITS_MASKS[count]) | FINAL_BITS_MASKBIT[count]
final_pad_byte(msg_bits, msg_bits_count) ==
    LimbOr(LimbAnd(msg_bits, at(FINAL_BITS_MASKS, msg_bits_count)),
           at(FINAL_BITS_MASKBIT, msg_bits_count))

\* final_bits_none falling through to the finalization, with the pad byte
\* of a count of 0: a fault that lets a call without bits change the context
final_bits_none_finalizing(P, m) == finalize(P, m, 128)

\* if msg_bits_count == 0 { return self.corrupted.into_result(()) }
final_bits_none(P, m) == [m EXCEPT !.ret = into_result(m.self.corrupted)]

\* final_bits adding 8 bits for each bit of the count: a fault that makes
\* its overflow branch reachable
final_bits_counting_bytes(P, m, msg_bits, msg_bits_count) ==
    IF msg_bits_count = 0 THEN final_bits_none(P, m)
    ELSE IF into_result(m.self.corrupted) # "Ok"
    THEN [m EXCEPT !.ret = into_result(m.self.corrupted)]
    ELSE IF m.self.computed
    THEN [m EXCEPT !.self.corrupted = "StateError",
                   !.ret = into_result("StateError")]
    ELSE IF msg_bits_count >= 8
    THEN [m EXCEPT !.self.corrupted = "BadParam",
                   !.ret = into_result("BadParam")]
    ELSE Then(checked_add(m.self.length, cast(8 * msg_bits_count, 8)),
              LAMBDA new_length :
                IF ~new_length[1]
                THEN [m EXCEPT !.self.corrupted = "StateError",
                               !.ret = into_result("StateError")]
                ELSE Then(finalize(P, [m EXCEPT !.self.length = new_length[2]],
                                   final_pad_byte(msg_bits, msg_bits_count)),
                          LAMBDA m1 :
                            IF m1.panicked \/ m1.ret # "Ok" THEN m1
                            ELSE [m1 EXCEPT
                                    !.ret = into_result(m1.self.corrupted)]))

\* final_bits that reports a count of 8 or more as a state error: a fault
\* that leaves BadParam without an origin
final_bits_count_as_state(P, m, msg_bits, msg_bits_count) ==
    IF msg_bits_count = 0 THEN final_bits_none(P, m)
    ELSE IF into_result(m.self.corrupted) # "Ok"
    THEN [m EXCEPT !.ret = into_result(m.self.corrupted)]
    ELSE IF m.self.computed \/ msg_bits_count >= 8
    THEN [m EXCEPT !.self.corrupted = "StateError",
                   !.ret = into_result("StateError")]
    ELSE Then(checked_add(m.self.length, cast(msg_bits_count, 8)),
              LAMBDA new_length :
                IF ~new_length[1]
                THEN [m EXCEPT !.self.corrupted = "StateError",
                               !.ret = into_result("StateError")]
                ELSE Then(finalize(P, [m EXCEPT !.self.length = new_length[2]],
                                   final_pad_byte(msg_bits, msg_bits_count)),
                          LAMBDA m1 :
                            IF m1.panicked \/ m1.ret # "Ok" THEN m1
                            ELSE [m1 EXCEPT
                                    !.ret = into_result(m1.self.corrupted)]))

\* Sha2Context::final_bits
final_bits(P, m, msg_bits, msg_bits_count) ==
    IF msg_bits_count = 0 THEN final_bits_none(P, m)
    ELSE IF into_result(m.self.corrupted) # "Ok"
    THEN [m EXCEPT !.ret = into_result(m.self.corrupted)]
    ELSE IF m.self.computed
    THEN [m EXCEPT !.self.corrupted = "StateError",
                   !.ret = into_result("StateError")]
    ELSE IF msg_bits_count >= 8
    THEN [m EXCEPT !.self.corrupted = "BadParam",
                   !.ret = into_result("BadParam")]
    ELSE Then(checked_add(m.self.length, cast(msg_bits_count, 8)),
              LAMBDA new_length :
                IF ~new_length[1]
                THEN [m EXCEPT !.self.corrupted = "StateError",
                               !.ret = into_result("StateError")]
                ELSE Then(finalize(P, [m EXCEPT !.self.length = new_length[2]],
                                   final_pad_byte(msg_bits, msg_bits_count)),
                          LAMBDA m1 :
                            IF m1.panicked \/ m1.ret # "Ok" THEN m1
                            ELSE [m1 EXCEPT
                                    !.ret = into_result(m1.self.corrupted)]))

\* result without the corruption check: a fault that lets a corrupted
\* context finalize
result_unguarded(P, m, dst) ==
    Then(IF ~m.self.computed THEN finalize(P, m, 128) ELSE m, LAMBDA m1 :
      IF m1.panicked \/ m1.ret # "Ok" THEN << m1, dst >>
      ELSE << [m1 EXCEPT !.ret = "Ok"],
              write_hash(P, dst, m1.self.intermediate_hash) >>)

\* result that finalizes whether or not the context is finalized already
result_refinalizing(P, m, dst) ==
    IF into_result(m.self.corrupted) # "Ok"
    THEN << [m EXCEPT !.ret = into_result(m.self.corrupted)], dst >>
    ELSE Then(finalize(P, m, 128), LAMBDA m1 :
           IF m1.panicked \/ m1.ret # "Ok" THEN << m1, dst >>
           ELSE << [m1 EXCEPT !.ret = "Ok"],
                   write_hash(P, dst, m1.self.intermediate_hash) >>)

\* Sha2Context::result, on the machine and the caller's buffer dst, as
\* << machine, dst >>
result(P, m, dst) ==
    IF into_result(m.self.corrupted) # "Ok"
    THEN << [m EXCEPT !.ret = into_result(m.self.corrupted)], dst >>
    ELSE Then(IF ~m.self.computed THEN finalize(P, m, 128) ELSE m, LAMBDA m1 :
           IF m1.panicked \/ m1.ret # "Ok" THEN << m1, dst >>
           ELSE << [m1 EXCEPT !.ret = "Ok"],
                   write_hash(P, dst, m1.self.intermediate_hash) >>)

\* the message of tests::test_multiblock
test_multiblock_msg ==
    << 69, 17, 1, 37, 14, 198, 242, 102, 82, 36, 157, 89, 220, 151, 75, 115,
       97, 213, 113, 168, 16, 28, 223, 211, 106, 186, 59, 88, 84, 211, 174, 8,
       107, 95, 221, 69, 151, 114, 27, 102, 227, 192, 220, 93, 140, 96, 109, 150,
       87, 208, 227, 35, 40, 58, 82, 23, 209, 245, 63, 47, 40, 79, 87, 184,
       92, 138, 97, 172, 137, 36, 113, 31, 137, 92, 94, 217, 14, 241, 119, 69,
       237, 45, 114, 138, 189, 34, 165, 247, 161, 52, 121, 164, 98, 215, 27, 86,
       193, 154, 116, 164, 11, 101, 92, 88, 237, 254, 10, 24, 138, 210, 207, 70,
       203, 243, 5, 36, 246, 93, 66, 60, 131, 125, 209, 255, 43, 244, 98, 172,
       65, 152, 0, 115, 69, 187, 68, 219, 183, 177, 200, 97, 41, 140, 223, 97,
       152, 42, 131, 58, 252, 114, 143, 174, 30, 218, 47, 135, 170, 44, 148, 128,
       133, 139, 236 >>

(***************************************************************************)
(* The caller: one context of one parameter set, driven through the       *)
(* public operations.  A session runs from new or reset to the next reset. *)
(* The first session feeds a prefix of the test message in chunks cut at   *)
(* the offsets Cuts, empty chunks included, finalizes either way and goes  *)
(* on calling; a session after a reset is a short one: it feeds single     *)
(* bytes, finalizes by result and goes on calling.                         *)
(***************************************************************************)
\* resets per run
MaxResets == 1

\* bytes the first session feeds beyond the first block boundary
MaxOver == 1

\* bytes a session after a reset feeds
MaxRefeed == 1

VARIABLES
    P,          \* the parameter set the context is instantiated for
    self,       \* the Sha2Context
    dst,        \* the caller's digest buffer
    ret,        \* the Result of the last call
    calls,      \* the process_message_block calls of the last call
    panicked,   \* the last call aborted
    op,         \* the last call: its name and the class of its arguments
    fed,        \* the bytes the successful input calls of the session were given
    fin,        \* the call that finalized the session, or "none"
    compressed, \* the process_message_block calls of the session
    resets      \* the reset calls so far

vars == << P, self, dst, ret, calls, panicked, op, fed, fin, compressed, resets >>

\* the context takes message bytes
Accepting == ~self.computed /\ self.corrupted = "Success"

\* the offsets at which the first session cuts the message into chunks
Cuts ==
    {0, 1, 2, MSG_BLOCK_SIZE(P) - 9, MSG_BLOCK_SIZE(P) - 8}
    \cup MSG_BLOCK_SIZE(P)..(MSG_BLOCK_SIZE(P) + MaxOver)

\* the chunks input may be given: the next bytes of the message up to a cut
\* or the next byte, and nothing or a stray byte once the session accepts
\* no more
InputChunks ==
    IF ~Accepting
    THEN {<< at(test_multiblock_msg, 0) >>}
         \cup (IF resets = 0 THEN {<< >>} ELSE {})
    ELSE IF resets = 0
    THEN {SubSeq(test_multiblock_msg, Len(fed) + 1, c) :
            c \in {c \in Cuts : c >= Len(fed)}}
    ELSE {<< at(test_multiblock_msg, Len(fed)) >> : n \in Len(fed)..(MaxRefeed - 1)}

\* the arguments final_bits may be given: << msg_bits, msg_bits_count >>
FinalBitsArgs ==
    IF resets = 0 THEN {<< 255, 0 >>, << 255, 3 >>, << 255, 8 >>}
    ELSE {<< 255, 8 >>, << 255, 9 >>}

\* the record of a call
Op(name, empty, count) ==
    [name |-> name, empty |-> empty, count |-> count, bits |-> 0]

Init ==
    /\ P \in Variants
    /\ self = new(P)
    /\ dst = repeat(0, HASH_LEN_BYTES(P))
    /\ ret = "Ok"
    /\ calls = << >>
    /\ panicked = FALSE
    /\ op = Op("new", FALSE, 0)
    /\ fed = << >>
    /\ fin = "none"
    /\ compressed = 0
    /\ resets = 0

\* the caller sees the machine m after the call name
Returns(m, name) ==
    /\ self' = m.self
    /\ ret' = m.ret
    /\ calls' = m.calls
    /\ panicked' = m.panicked
    /\ fin' = IF ~self.computed /\ m.self.computed THEN name ELSE fin
    /\ compressed' = compressed + Len(m.calls)

Input ==
    /\ ~panicked
    /\ \E msg_chunk \in InputChunks :
         \E m \in {input(P, Call(self), msg_chunk)} :
           /\ Returns(m, "input")
           /\ op' = Op("input", Len(msg_chunk) = 0, 0)
           /\ fed' = IF m.ret = "Ok" THEN fed \o msg_chunk ELSE fed
    /\ UNCHANGED << P, dst, resets >>

FinalBits ==
    /\ ~panicked
    /\ \E args \in FinalBitsArgs :
         /\ \E m \in {final_bits(P, Call(self), args[1], args[2])} :
              Returns(m, "final_bits")
         /\ op' = [Op("final_bits", FALSE, args[2]) EXCEPT !.bits = args[1]]
    /\ UNCHANGED << P, dst, fed, resets >>

Result ==
    /\ ~panicked
    /\ \E r \in {result(P, Call(self), dst)} :
         /\ Returns(r[1], "result")
         /\ dst' = r[2]
    /\ op' = Op("result", FALSE, 0)
    /\ UNCHANGED << P, fed, resets >>

Reset ==
    /\ ~panicked
    /\ resets < MaxResets
    /\ \E m \in {reset(P, Call(self))} :
         /\ self' = m.self
         /\ ret' = m.ret
         /\ calls' = m.calls
         /\ panicked' = m.panicked
    /\ op' = Op("reset", FALSE, 0)
    /\ fed' = << >>
    /\ fin' = "none"
    /\ compressed' = 0
    /\ resets' = resets + 1
    /\ UNCHANGED << P, dst >>

Next == Input \/ FinalBits \/ Result \/ Reset

Spec == Init /\ [][Next]_vars

(***************************************************************************)
(* Properties                                                              *)
(***************************************************************************)
\* the fields on which two contexts at the same point of a message agree:
\* intermediate hash, cursor, bit-length counter, valid buffer prefix
SameProgress(a, b) ==
    /\ a.intermediate_hash = b.intermediate_hash
    /\ a.msg_block_idx = b.msg_block_idx
    /\ a.length = b.length
    /\ SubSeq(a.msg_block, 1, a.msg_block_idx)
         = SubSeq(b.msg_block, 1, b.msg_block_idx)

\* the machine after a single input(M) to a fresh context, M being the bytes
\* the session was fed
SingleInput == input(P, Call(new(P)), fed)

\* C1: however the session's bytes were cut into input calls (empty chunks
\* and single bytes included), an accepting context agrees with a fresh
\* context given the same bytes in a single input call on the intermediate
\* hash, the cursor, the valid buffer prefix and the bit-length counter; and
\* the digest result then finalizes is the digest of that single-input
\* context.
C1_ChunkingInvariance ==
    /\ Accepting =>
         \E s \in {SingleInput} : s.ret = "Ok" /\ SameProgress(self, s.self)
    /\ (fin = "result" /\ op.name = "result" /\ ret = "Ok") =>
         \E s \in {SingleInput} :
           dst = result(P, Call(s.self), repeat(0, HASH_LEN_BYTES(P)))[2]

\* more than a block was fed, and the last input call, not empty, compressed
\* nothing: the block boundary was crossed by an earlier chunk
C1_Witness ==
    /\ Accepting
    /\ op.name = "input" /\ ~op.empty
    /\ calls = << >>
    /\ Len(fed) > MSG_BLOCK_SIZE(P)

\* the last call was one of input, final_bits and result
HashingCall == op.name \in {"input", "final_bits", "result"}

\* the last call was an input of no bytes
EmptyInput == op.name = "input" /\ op.empty

\* the statement of C2 as written: on a corrupted context every input,
\* final_bits and result call, whatever its arguments, fails with the stored
\* status and changes neither the context nor the digest buffer
C2_AsStated ==
    [][(self.corrupted # "Success" /\ HashingCall')
         => (ret' = self.corrupted /\ self' = self /\ dst' = dst)]_vars

\* C2: on a corrupted context every input of at least one byte, every
\* final_bits and every result call fails with the stored status and changes
\* neither a field of the context nor the digest buffer, until reset; an
\* input of no bytes changes nothing either but returns success.
C2_StickyCorruption ==
    [][(self.corrupted # "Success" /\ HashingCall')
         => /\ self' = self
            /\ dst' = dst
            /\ ret' = IF EmptyInput' THEN "Ok" ELSE self.corrupted]_vars

\* result was called on a context corrupted by BadParam, a status result
\* never sets, and failed with it
C2_Witness ==
    op.name = "result" /\ self.corrupted = "BadParam" /\ ret = "BadParam"

C4_EmptyInput ==
    [][EmptyInput' => (ret' = "Ok" /\ self' = self /\ dst' = dst)]_vars

\* an input of no bytes was called on a corrupted context and succeeded
C4_Witness == EmptyInput /\ ret = "Ok" /\ self.corrupted # "Success"

\* C5: on a finalized context an input of at least one byte and a final_bits
\* with a count of at least 1 set corrupted to StateError and fail with
\* StateError; no other field changes.
C5_AfterFinalization ==
    [][(/\ self.computed
        /\ \/ op'.name = "input" /\ ~op'.empty
           \/ op'.name = "final_bits" /\ op'.count >= 1)
         => /\ ret' = "StateError"
            /\ self' = [self EXCEPT !.corrupted = "StateError"]]_vars

\* final_bits with a count of 8 was called on a finalized context and
\* failed with StateError
C5_Witness ==
    /\ op.name = "final_bits" /\ op.count = 8
    /\ self.computed
    /\ self.corrupted = "StateError"
    /\ ret = "StateError"

\* C6: reset returns success in every state and leaves the intermediate
\* hash, the cursor, the bit-length counter, computed and corrupted as new
\* makes them: H0, 0, 0, false, Success.
C6_ResetRestores ==
    op.name = "reset" =>
      /\ ret = "Ok"
      /\ self.intermediate_hash = new(P).intermediate_hash
      /\ self.intermediate_hash = H0(P)
      /\ self.msg_block_idx = 0
      /\ self.length = cast(0, 8)
      /\ self.computed = FALSE
      /\ self.corrupted = "Success"

\* reset was called after a result had written a digest: on a finalized
\* context, or on one corrupted after its finalization
C6_Witness == op.name = "reset" /\ dst # repeat(0, HASH_LEN_BYTES(P))

\* C7: no input, final_bits or result call changes a corrupted status: once
\* corrupted is not Success it keeps its value, BadParam as well as
\* StateError, until reset.
C7_OnlyResetClears ==
    [][(self.corrupted # "Success" /\ op'.name # "reset")
         => self'.corrupted = self.corrupted]_vars

\* an input of a byte was called on a context corrupted by BadParam, which
\* is BadParam still
C7_Witness ==
    /\ op.name = "input" /\ ~op.empty
    /\ self.corrupted = "BadParam"
    /\ ret = "BadParam"

\* C8: result on a finalized, uncorrupted context returns success, writes
\* the serialization of the stored intermediate hash, which is the digest
\* an earlier result of the session wrote, and neither pads nor compresses
\* nor changes the context.
C8_ResultIdempotent ==
    [][(self.computed /\ self.corrupted = "Success" /\ op'.name = "result")
         => /\ ret' = "Ok"
            /\ calls' = << >>
            /\ self' = self
            /\ dst' = write_hash(P, dst, self.intermediate_hash)
            /\ (fin = "result" => dst' = dst)]_vars

\* result succeeded without compressing on a session that a result
\* finalized: a second result
C8_Witness ==
    op.name = "result" /\ fin = "result" /\ ret = "Ok" /\ calls = << >>

\* C9: computed becomes true only by a successful result or a successful
\* final_bits with a count in 1..7, and stays true until reset; no call on
\* a finalized context compresses; result after final_bits writes the hash
\* final_bits left; result on an accepting context finalizes, its pad byte
\* 0x80 at the cursor of the first block it compresses.
C9_FinalizeOnce ==
    [][/\ (~self.computed /\ self'.computed)
            => /\ ret' = "Ok"
               /\ \/ op'.name = "result"
                  \/ op'.name = "final_bits" /\ op'.count \in 1..7
       /\ (self.computed /\ op'.name # "reset")
            => (self'.computed /\ calls' = << >>
                /\ self'.intermediate_hash = self.intermediate_hash)
       /\ (self.computed /\ self.corrupted = "Success" /\ op'.name = "result")
            => dst' = write_hash(P, dst, self.intermediate_hash)
       /\ (Accepting /\ op'.name = "result")
            => /\ ret' = "Ok"
               /\ self'.computed
               /\ calls' # << >>
               /\ at(calls'[1].block, self.msg_block_idx) = 128]_vars

\* result succeeded without compressing on a session that final_bits
\* finalized
C9_Witness ==
    op.name = "result" /\ fin = "final_bits" /\ ret = "Ok" /\ calls = << >>

\* the last call finalized the session
Finalizing == op.name \in {"result", "final_bits"} /\ calls # << >>

Be64(n) ==
    << 0, 0, 0, 0,
       (n \div 16777216) % 256, (n \div 65536) % 256, (n \div 256) % 256,
       n % 256 >>

\* the block of MSG_BLOCK_SIZE bytes made of the bytes head, zero bytes, and
\* the bit length n in its last 8 bytes
LengthBlock(head, n) ==
    head \o repeat(0, MSG_BLOCK_SIZE(P) - 8 - Len(head)) \o Be64(n)

\* the last call was a result that finalized the session
ResultFinalized == op.name = "result" /\ fin = "result" /\ calls # << >>

\* C11, as written: when the session fed k * MSG_BLOCK_SIZE bytes, k >= 0,
\* the input calls compressed k blocks and the finalizing result compressed
\* one more, made of the pad byte 0x80, zero bytes and the bit length
\* 8 * k * MSG_BLOCK_SIZE in its last 8 bytes.
C11_AsStated ==
    (ResultFinalized /\ Len(fed) % MSG_BLOCK_SIZE(P) = 0) =>
      /\ compressed = Len(fed) \div MSG_BLOCK_SIZE(P) + 1
      /\ Len(calls) = 1
      /\ calls[1].block = LengthBlock(<< 128 >>, 8 * Len(fed))

\* C11 holds for Sha256Params
C11_Sha256 == P = "Sha256Params" => C11_AsStated

\* a result finalized a Sha256Params session that had fed exactly one block
C11_Sha256_Witness ==
    /\ P = "Sha256Params"
    /\ ResultFinalized
    /\ Len(fed) = MSG_BLOCK_SIZE(P)

\* the cursor a finalizing call found, the message bytes below it, and the
\* pad byte the call wrote there
PadCursor == Len(fed) % MSG_BLOCK_SIZE(P)

PadTail == SubSeq(fed, Len(fed) - PadCursor + 1, Len(fed))

PadByte == IF op.name = "result" THEN 128 ELSE final_pad_byte(op.bits, op.count)

Padded(n) == PadTail \o << PadByte >> \o repeat(0, n - PadCursor - 1)

\* C12, as written: a finalization at a cursor of MSG_BLOCK_SIZE - 8 or more
\* compresses two blocks, the message bytes, the pad byte and zeros to the
\* block end, then a block that is zero before its last 8 bytes; at a lower
\* cursor it compresses one block, which holds the message bytes, the pad
\* byte and zeros up to MSG_BLOCK_SIZE - 8; no message byte is overwritten
C12_AsStated ==
    Finalizing =>
      IF PadCursor >= MSG_BLOCK_SIZE(P) - 8
      THEN /\ Len(calls) = 2
           /\ calls[1].block = Padded(MSG_BLOCK_SIZE(P))
           /\ SubSeq(calls[2].block, 1, MSG_BLOCK_SIZE(P) - 8)
                = repeat(0, MSG_BLOCK_SIZE(P) - 8)
      ELSE /\ Len(calls) = 1
           /\ SubSeq(calls[1].block, 1, MSG_BLOCK_SIZE(P) - 8)
                = Padded(MSG_BLOCK_SIZE(P) - 8)

\* C12 holds for Sha256Params, whose length field is the last 8 bytes
C12_Sha256 == P = "Sha256Params" => C12_AsStated

C12_Sha256_Witness ==
    /\ P = "Sha256Params"
    /\ Finalizing
    /\ Len(calls) = 2
    /\ PadCursor = MSG_BLOCK_SIZE(P) - 8

\* the bit-length counter a finalizing call stored: 8 bits for each accepted
\* byte and the count of a final_bits call
BitLength == 8 * Len(fed) + (IF op.name = "final_bits" THEN op.count ELSE 0)

LastBlock == calls[Len(calls)].block

\* C13, as written: for both parameter sets the last block a finalization
\* compresses holds the bit-length counter big-endian in its bytes
\* MSG_BLOCK_SIZE - 8 .. MSG_BLOCK_SIZE - 1, and its other bytes are as
\* the padding left them
C13_AsStated ==
    Finalizing =>
      /\ SubSeq(LastBlock, MSG_BLOCK_SIZE(P) - 7, MSG_BLOCK_SIZE(P))
           = Be64(BitLength)
      /\ SubSeq(LastBlock, 1, MSG_BLOCK_SIZE(P) - 8)
           = IF Len(calls) = 2 THEN repeat(0, MSG_BLOCK_SIZE(P) - 8)
                               ELSE Padded(MSG_BLOCK_SIZE(P) - 8)

\* C13 holds for Sha256Params
C13_Sha256 == P = "Sha256Params" => C13_AsStated

C13_Sha256_Witness ==
    /\ P = "Sha256Params"
    /\ Finalizing
    /\ Len(fed) = MSG_BLOCK_SIZE(P) + 1

\* ---- the bit-length counter near the end of its range ----

\* most bytes short of the overflow a context starts with, besides one
\* block and a byte
MaxLeft == 2

\* the u128 value 2^128 - 8 * k
U128Near(k) == [i \in 1..8 |-> IF i < 8 THEN 65535 ELSE 65536 - 8 * k]

\* the context after input has accepted 2^125 - k zero bytes: the counter is
\* 8 * (2^125 - k), the cursor is (2^125 - k) % MSG_BLOCK_SIZE and the buffer
\* holds zero bytes. The intermediate hash of that message is out of reach
\* of a computation; input's overflow branch does not read it, and H0 stands
\* in its place.
near_overflow(k) ==
    [new(P) EXCEPT !.length = U128Near(k),
                   !.msg_block_idx = (MSG_BLOCK_SIZE(P) - k) % MSG_BLOCK_SIZE(P)]

\* the byte the context will not accept is the k-th
InitOverflow ==
    /\ P \in Variants
    /\ \E k \in (1..MaxLeft) \cup {MSG_BLOCK_SIZE(P) + 1} : self = near_overflow(k)
    /\ dst = repeat(0, HASH_LEN_BYTES(P))
    /\ ret = "Ok"
    /\ calls = << >>
    /\ panicked = FALSE
    /\ op = Op("new", FALSE, 0)
    /\ fed = << >>
    /\ fin = "none"
    /\ compressed = 0
    /\ resets = 0

SpecOverflow == InitOverflow /\ [][Next]_vars

\* the bytes length.checked_add(8) accepts before it fails
Headroom(length) ==
    IF \A i \in 1..7 : length[i] = 65535
    THEN (65535 - length[8]) \div 8
    ELSE 8192

RECURSIVE HashAfter(_, _)
\* the intermediate hash after compressing the blocks in turn
HashAfter(hash, blocks) ==
    IF blocks = << >> THEN hash
    ELSE HashAfter(Compress(P, hash, blocks[1].block), Tail(blocks))

\* an input call on an accepting context fails
OverflowingInput == Accepting /\ op'.name = "input" /\ ret' # "Ok"

\* what an overflowing input leaves: h bytes were counted, byte h + 1 was
\* stored and refused, the rest of the chunk was not looked at
Overflowed(h) ==
    LET B == MSG_BLOCK_SIZE(P)
        n == self.msg_block_idx + h
        Byte(j) == test_multiblock_msg[Len(fed) + j]
        Pos(j) == self.msg_block_idx + j - 1
    IN  /\ ret' = "StateError"
        /\ self'.corrupted = "StateError"
        /\ ~self'.computed
        /\ ~panicked'
        /\ self'.length = U128Near(1)
        /\ Len(calls') = n \div B
        /\ self'.msg_block_idx = (n % B) + 1
        /\ \A j \in 1..(h + 1) :
             IF Pos(j) \div B = n \div B
             THEN at(self'.msg_block, Pos(j) % B) = Byte(j)
             ELSE at(calls'[Pos(j) \div B + 1].block, Pos(j) % B) = Byte(j)
        /\ self'.intermediate_hash = HashAfter(self.intermediate_hash, calls')
        /\ fed' = fed

\* C14: an input on an accepting context succeeds only with a chunk the
\* counter has room for; one that would take the counter past its range
\* returns StateError with corrupted = StateError, the counter at the last
\* value that fitted (not wrapped), the bytes before the overflow stored and
\* the blocks they filled compressed, and nothing consumed after it
C14_CounterOverflow ==
    [][/\ (Accepting /\ op'.name = "input" /\ ret' = "Ok")
          => Len(fed') - Len(fed) <= Headroom(self.length)
       /\ OverflowingInput => Overflowed(Headroom(self.length))]_vars

C14_Witness ==
    /\ op.name = "input"
    /\ ret = "StateError"
    /\ ~self.computed
    /\ self.length = U128Near(1)
    /\ Len(calls) = 1
    /\ Len(fed) = 0

\* C15: final_bits with a count of 8 or more on an accepting context returns
\* BadParam and stores it, changes no other field and compresses nothing;
\* no other call makes corrupted BadParam, and a call returns BadParam only
\* with BadParam stored
C15_BadParam ==
    [][/\ (Accepting /\ op'.name = "final_bits" /\ op'.count >= 8)
          => /\ ret' = "BadParam"
             /\ self' = [self EXCEPT !.corrupted = "BadParam"]
             /\ calls' = << >>
             /\ ~panicked'
       /\ (self'.corrupted = "BadParam" /\ self.corrupted # "BadParam")
          => (Accepting /\ op'.name = "final_bits" /\ op'.count >= 8)
       /\ ret' = "BadParam" => self'.corrupted = "BadParam"]_vars

C15_Witness ==
    /\ op.name = "final_bits"
    /\ op.count = 9
    /\ ret = "BadParam"
    /\ self.corrupted = "BadParam"
    /\ self.msg_block_idx = 1

\* ---- the pad byte of final_bits over every argument ----

\* the msg_bits values with which the whole of final_bits is run
SampleBits == {0, 165, 255}

\* a new context and the arguments msg_bits, msg_bits_count of a final_bits
\* call that passes the count checks
InitPadByte ==
    /\ P \in Variants
    /\ self = new(P)
    /\ dst = repeat(0, HASH_LEN_BYTES(P))
    /\ ret = "Ok"
    /\ calls = << >>
    /\ panicked = FALSE
    /\ \E msg_bits \in 0..255, msg_bits_count \in 1..7 :
         op = [Op("final_pad_byte", FALSE, msg_bits_count) EXCEPT !.bits = msg_bits]
    /\ fed = << >>
    /\ fin = "none"
    /\ compressed = 0
    /\ resets = 0

\* the pad byte expression of final_bits, its value stored at the cursor as
\* pad_message stores it
ApplyPadByte ==
    /\ op.name = "final_pad_byte"
    /\ self.msg_block_idx = 0
    /\ \E m \in {put_byte(P, Call(self), final_pad_byte(op.bits, op.count))} :
         self' = m.self
    /\ UNCHANGED << P, dst, ret, calls, panicked, op, fed, fin, compressed, resets >>

\* final_bits on the new context with the arguments drawn
FinalBitsDrawn ==
    /\ op.name = "final_pad_byte"
    /\ self.msg_block_idx = 0
    /\ op.bits \in SampleBits
    /\ \E m \in {final_bits(P, Call(self), op.bits, op.count)} :
         Returns(m, "final_bits")
    /\ op' = [op EXCEPT !.name = "final_bits"]
    /\ UNCHANGED << P, dst, fed, resets >>

NextPadByte == ApplyPadByte \/ FinalBitsDrawn

SpecPadByte == InitPadByte /\ [][NextPadByte]_vars

\* the pad byte expression has been evaluated
PadByteApplied == op.name = "final_pad_byte" /\ self.msg_block_idx = 1

\* final_bits has run on the drawn arguments
FinalBitsRan == op.name = "final_bits" /\ op.count \in 1..7

\* bits masked to its high count bits, with the next bit down set
HighBitsPad(bits, count) ==
    (bits \div (2 ^ (8 - count))) * (2 ^ (8 - count)) + 2 ^ (7 - count)

\* C16, as written: for every byte value and every count in 1..7 the pad
\* byte is bits masked to its low count bits with the bit following them set
C16_AsStated ==
    PadByteApplied =>
      at(self.msg_block, 0) = (op.bits % (2 ^ op.count)) + 2 ^ op.count

\* C16: for every byte value and every count in 1..7 the pad byte keeps the
\* high count bits of bits and sets the next lower bit; final_bits on an
\* accepting context returns Ok, finalizes with that byte at the cursor and
\* stores a bit length that has grown by count
C16_PadByte ==
    /\ PadByteApplied => at(self.msg_block, 0) = HighBitsPad(op.bits, op.count)
    /\ FinalBitsRan =>
         /\ ret = "Ok"
         /\ self.computed
         /\ Len(calls) = 1
         /\ calls[1].block[1] = HighBitsPad(op.bits, op.count)
         /\ SubSeq(calls[1].block, 57, 64) = Be64(op.count)

C16_Witness ==
    /\ PadByteApplied
    /\ op.bits = 165
    /\ op.count = 3
    /\ at(self.msg_block, 0) = 176

\* C17: on a context made by new for Sha256Params, every input and every
\* result made while the context accepts bytes returns Ok without an abort
\* and without recording a corruption, for the messages shorter than a
\* block, of one block and of more than a block; input leaves the context
\* accepting and result finalizes it
C17_Sha256Succeeds ==
    [][(/\ P = "Sha256Params"
        /\ resets = 0
        /\ Accepting
        /\ op'.name \in {"input", "result"})
       => /\ ret' = "Ok"
          /\ ~panicked'
          /\ self'.corrupted = "Success"
          /\ self'.computed = (op'.name = "result")]_vars

C17_Witness ==
    /\ P = "Sha256Params"
    /\ resets = 0
    /\ op.name = "result"
    /\ fin = "result"
    /\ ret = "Ok"
    /\ Len(fed) = MSG_BLOCK_SIZE(P) + 1
    /\ compressed = 2

\* result has finalized the empty message of a Sha256Params context made by
\* new
EmptyDigested ==
    /\ P = "Sha256Params"
    /\ resets = 0
    /\ fin = "result"
    /\ op.name = "result"
    /\ calls # << >>
    /\ Len(fed) = 0

\* C18, as written: the digest of the empty message is
\* e3b0c442 98fc1c14 9afbf4c8 996fb924 27ae41e4 649b934c a4959916 b7852b85
C18_AsStated ==
    EmptyDigested =>
      dst = << 227, 176, 196, 66, 152, 252, 28, 20,
          154, 251, 244, 200, 153, 111, 185, 36,
          39, 174, 65, 228, 100, 155, 147, 76,
          164, 149, 153, 22, 183, 133, 43, 133 >>

\* C18: the digest of the empty message is
\* e3b0c442 98fc1c14 9afbf4c8 996fb924 27ae41e4 649b934c a495991b 7852b855
C18_EmptyDigest ==
    EmptyDigested =>
      /\ ret = "Ok"
      /\ dst = << 227, 176, 196, 66, 152, 252, 28, 20,
          154, 251, 244, 200, 153, 111, 185, 36,
          39, 174, 65, 228, 100, 155, 147, 76,
          164, 149, 153, 27, 120, 82, 184, 85 >>

C18_Witness == EmptyDigested /\ compressed = 1 /\ self.computed

\* const W_LEN: usize = 64 / 80, which process_message_block does not use
W_LEN(variant) == IF variant = "Sha256Params" THEN 64 ELSE 80

\* the loops of process_message_block with n in the place of the literal 64:
\* the schedule of n words and the hash after n rounds
ScheduleLen(variant, msg_block_bytes, n) ==
    Loop(ExpandWord,
         Loop(LAMBDA w, t : LoadWord(variant, msg_block_bytes, w, t),
              repeat(ZERO(variant), n), 0, 16),
         16, n)

CompressLen(variant, intermediate_hash, msg_block_bytes, n) ==
    Then(ScheduleLen(variant, msg_block_bytes, n),
         LAMBDA w :
           Limbwise(wrapping_add, intermediate_hash,
                    Loop(LAMBDA v, t : Round(variant, w, v, t),
                         intermediate_hash, 0, n),
                    8))

\* the first compression of a session has just been made
FirstCompression == compressed = 1 /\ Len(calls) = 1

\* C19, as written: for each parameter set the compression expands W_LEN
\* schedule words and runs W_LEN rounds, 64 for Sha256Params and 80 for
\* Sha512Params
C19_AsStated ==
    FirstCompression =>
      self.intermediate_hash
        = CompressLen(P, H0(P), calls[1].block, W_LEN(P))

\* C19 holds for Sha256Params, whose W_LEN is the literal of the loops
C19_Sha256 == P = "Sha256Params" => C19_AsStated

C19_Sha256_Witness ==
    /\ P = "Sha256Params"
    /\ FirstCompression
    /\ op.name = "input"
    /\ self.intermediate_hash # H0(P)

\* the words the first loop of process_message_block loads: for t in 0..16
LoadedWords(variant, msg_block_bytes) ==
    Loop(LAMBDA w, t : LoadWord(variant, msg_block_bytes, w, t),
         repeat(ZERO(variant), 64), 0, 16)

\* the bytes of a word: 4 for u32, 8 for u64
WordBytes(variant) == 2 * WordLimbs(variant)

\* C20, as written: for each parameter set the word w[t], t in 0..15, of
\* every block compressed is the big-endian value of the block's bytes
\* t * WordBytes .. (t + 1) * WordBytes - 1, so that the 16 words are
\* consecutive groups that do not overlap and cover the block
C20_AsStated ==
    \A c \in 1..Len(calls) :
      \E w \in {LoadedWords(P, calls[c].block)} :
        \A t \in 0..15 :
          at(w, t) = parse_word(P, SubSeq(calls[c].block,
                                          t * WordBytes(P) + 1,
                                          (t + 1) * WordBytes(P)))

\* C20 holds for Sha256Params, whose words have the 4 bytes of the stride
C20_Sha256 == P = "Sha256Params" => C20_AsStated

C20_Sha256_Witness ==
    /\ P = "Sha256Params"
    /\ Finalizing
    /\ Len(fed) = 1
    /\ at(LoadedWords(P, calls[1].block), 15) = cast(8, 2)

\* Sha2Params::upper_sigma0 .. lower_sigma1 as Sha256Params and Sha512Params
\* implement them, which process_message_block does not call
params_upper_sigma0(variant, word) ==
    IF variant = "Sha256Params"
    THEN xor(xor(rotr(word, 2), rotr(word, 13)), rotr(word, 22))
    ELSE xor(xor(rotr(word, 28), rotr(word, 34)), rotr(word, 39))

params_upper_sigma1(variant, word) ==
    IF variant = "Sha256Params"
    THEN xor(xor(rotr(word, 6), rotr(word, 11)), rotr(word, 25))
    ELSE xor(xor(rotr(word, 14), rotr(word, 18)), rotr(word, 41))

params_lower_sigma0(variant, word) ==
    IF variant = "Sha256Params"
    THEN xor(xor(rotr(word, 7), rotr(word, 18)), shr(word, 3))
    ELSE xor(xor(rotr(word, 1), rotr(word, 8)), shr(word, 7))

params_lower_sigma1(variant, word) ==
    IF variant = "Sha256Params"
    THEN xor(xor(rotr(word, 17), rotr(word, 19)), shr(word, 10))
    ELSE xor(xor(rotr(word, 19), rotr(word, 61)), shr(word, 6))

\* C21, as written: the mixing functions the compression applies are those
\* of the parameter set. In the first compression of a session the engine
\* applies upper_sigma0 to a = H0[0] and upper_sigma1 to e = H0[4] in round
\* 0, and lower_sigma0 to w[1] and lower_sigma1 to w[14] for w[16]; each
\* value is the one the parameter set's function gives
C21_AsStated ==
    FirstCompression =>
      \E w \in {LoadedWords(P, calls[1].block)} :
        /\ upper_sigma0(H0(P)[1]) = params_upper_sigma0(P, H0(P)[1])
        /\ upper_sigma1(H0(P)[5]) = params_upper_sigma1(P, H0(P)[5])
        /\ lower_sigma0(at(w, 1)) = params_lower_sigma0(P, at(w, 1))
        /\ lower_sigma1(at(w, 14)) = params_lower_sigma1(P, at(w, 14))

\* C21 holds for Sha256Params, whose functions are the engine's own
C21_Sha256 == P = "Sha256Params" => C21_AsStated

C21_Sha256_Witness ==
    /\ P = "Sha256Params"
    /\ FirstCompression
    /\ op.name = "input"
    /\ at(LoadedWords(P, calls[1].block), 14) # ZERO(P)

\* C22: a finalized context has an all-zero block buffer, the cursor at 0,
\* the bit-length counter at 0 and computed set, from the successful result
\* or final_bits that finalized it onwards; that call returned Ok and left
\* in intermediate_hash the value its compressions gave
C22_AfterFinalize ==
    /\ self.computed =>
         /\ self.msg_block = repeat(0, MSG_BLOCK_SIZE(P))
         /\ self.msg_block_idx = 0
         /\ self.length = cast(0, 8)
    /\ Finalizing =>
         /\ ret = "Ok"
         /\ self.computed
         /\ self.corrupted = "Success"
    /\ (Finalizing /\ compressed = Len(calls)) =>
         self.intermediate_hash = HashAfter(H0(P), calls)

C22_Witness ==
    /\ Finalizing
    /\ op.name = "final_bits"
    /\ Len(calls) = 2
    /\ compressed = 2
    /\ self.computed
    /\ self.intermediate_hash # H0(P)

\* ---- the word functions over drawn words ----

\* the word whose hexadecimal digits are all n
NibbleWord(variant, n) == repeat(n * 4369, WordLimbs(variant))

\* the intermediate hashes the word functions are applied to: a, b, c and
\* e, f, g run over every triple of words of one repeated digit, and the
\* hash is H0 or eight consecutive round constants
DrawnHashes(variant) ==
    { << NibbleWord(variant, x), NibbleWord(variant, y), NibbleWord(variant, z),
         NibbleWord(variant, x), NibbleWord(variant, y), NibbleWord(variant, z),
         NibbleWord(variant, x), NibbleWord(variant, y) >> :
        x \in 0..15, y \in 0..15, z \in 0..15 }
    \cup {H0(variant)}
    \cup {SubSeq(K(variant), o + 1, o + 8) : o \in {0, 8, 16, 24}}

InitWords ==
    /\ P \in Variants
    /\ \E hash \in DrawnHashes(P) :
         self = [new(P) EXCEPT !.intermediate_hash = hash]
    /\ dst = repeat(0, HASH_LEN_BYTES(P))
    /\ ret = "Ok"
    /\ calls = << >>
    /\ panicked = FALSE
    /\ op = Op("new", FALSE, 0)
    /\ fed = << >>
    /\ fin = "none"
    /\ compressed = 0
    /\ resets = 0

\* Self::maj(a, b, c) as round 0 calls it; ret is the word it returns
CallMaj ==
    /\ op.name = "new"
    /\ ret' = maj(self.intermediate_hash[1], self.intermediate_hash[2],
                  self.intermediate_hash[3])
    /\ op' = Op("maj", FALSE, 0)
    /\ UNCHANGED << P, self, dst, calls, panicked, fed, fin, compressed, resets >>

\* Self::ch(e, f, g) as round 0 calls it; ret is the word it returns
CallCh ==
    /\ op.name = "new"
    /\ ret' = ch(self.intermediate_hash[5], self.intermediate_hash[6],
                 self.intermediate_hash[7])
    /\ op' = Op("ch", FALSE, 0)
    /\ UNCHANGED << P, self, dst, calls, panicked, fed, fin, compressed, resets >>

\* P::write_hash(dst, &self.intermediate_hash) as result calls it
CallWriteHash ==
    /\ op.name = "new"
    /\ dst' = write_hash(P, dst, self.intermediate_hash)
    /\ op' = Op("write_hash", FALSE, 0)
    /\ UNCHANGED << P, self, ret, calls, panicked, fed, fin, compressed, resets >>

NextWords == CallMaj \/ CallCh \/ CallWriteHash

SpecWords == InitWords /\ [][NextWords]_vars

\* C23: for every triple of words drawn, maj as coded returns
\* (x AND y) XOR (x AND z) XOR (y AND z), and ch returns
\* (x AND y) XOR (NOT x AND z)
C23_MajCh ==
    /\ op.name = "maj" =>
         \E x \in {self.intermediate_hash[1]}, y \in {self.intermediate_hash[2]},
            z \in {self.intermediate_hash[3]} :
           ret = xor(xor(and(x, y), and(x, z)), and(y, z))
    /\ op.name = "ch" =>
         \E x \in {self.intermediate_hash[5]}, y \in {self.intermediate_hash[6]},
            z \in {self.intermediate_hash[7]} :
           ret = xor(and(x, y), and(not(x), z))

C23_Witness ==
    /\ op.name = "maj"
    /\ P = "Sha512Params"
    /\ self.intermediate_hash[1] = NibbleWord(P, 3)
    /\ self.intermediate_hash[2] = NibbleWord(P, 5)
    /\ self.intermediate_hash[3] = NibbleWord(P, 9)
    /\ ret = NibbleWord(P, 1)

\* byte k of a word, counted from its most significant byte
ByteOf(word, k) ==
    IF k % 2 = 0 THEN word[k \div 2 + 1] \div 256 ELSE word[k \div 2 + 1] % 256

\* C24: for both parameter sets write_hash fills the HASH_LEN_BYTES bytes
\* of the digest, byte i with byte i mod WordBytes, counted from the most
\* significant, of word i div WordBytes; parse_word on the digest at
\* offset j * WordBytes returns word j of the intermediate hash, for j in
\* 0..7
C24_WriteHash ==
    op.name = "write_hash" =>
      /\ Len(dst) = HASH_LEN_BYTES(P)
      /\ HASH_LEN_BYTES(P) = 8 * WordBytes(P)
      /\ \A i \in 0..(HASH_LEN_BYTES(P) - 1) :
           at(dst, i) = ByteOf(at(self.intermediate_hash, i \div WordBytes(P)),
                               i % WordBytes(P))
      /\ \A j \in 0..7 :
           /\ parse_word_ok(P, slice_from(dst, j * WordBytes(P)))
           /\ parse_word(P, slice_from(dst, j * WordBytes(P)))
                = at(self.intermediate_hash, j)

C24_Witness ==
    /\ op.name = "write_hash"
    /\ P = "Sha512Params"
    /\ self.intermediate_hash = H0(P)
    /\ SubSeq(dst, 1, 8) = << 106, 9, 230, 103, 243, 188, 201, 8 >>

\* C25: while the context is neither finalized nor corrupted, with n the
\* bytes the input calls have accepted since new or the last reset, the
\* bit-length counter is 8 * n, the cursor is n mod MSG_BLOCK_SIZE, below
\* MSG_BLOCK_SIZE, and n div MSG_BLOCK_SIZE blocks have been compressed
C25_Accounting ==
    Accepting =>
      /\ self.length = cast(8 * Len(fed), 8)
      /\ self.msg_block_idx = Len(fed) % MSG_BLOCK_SIZE(P)
      /\ self.msg_block_idx < MSG_BLOCK_SIZE(P)
      /\ compressed = Len(fed) \div MSG_BLOCK_SIZE(P)

C25_Witness ==
    /\ Accepting
    /\ op.name = "input"
    /\ Len(fed) = MSG_BLOCK_SIZE(P) + 1
    /\ compressed = 1
    /\ self.msg_block_idx = 1

\* C26: no call aborts on an index out of range, the cursor stays within
\* 0..MSG_BLOCK_SIZE, and a context whose cursor is MSG_BLOCK_SIZE (an
\* overflow left it there) is corrupted and is not touched, nor its buffer
\* compressed, by any call but reset
C26_NoIndexOutOfRange ==
    [][/\ ~panicked'
       /\ self'.msg_block_idx <= MSG_BLOCK_SIZE(P)
       /\ self'.msg_block_idx = MSG_BLOCK_SIZE(P) => self'.corrupted = "StateError"
       /\ (self.msg_block_idx = MSG_BLOCK_SIZE(P) /\ op'.name # "reset")
          => (self' = self /\ calls' = << >>)
       /\ (self.msg_block_idx = MSG_BLOCK_SIZE(P) /\ op'.name = "reset")
          => self'.msg_block_idx = 0]_vars

C26_Witness ==
    /\ self.msg_block_idx = MSG_BLOCK_SIZE(P)
    /\ self.corrupted = "StateError"
    /\ op.name = "result"
    /\ ret = "StateError"
    /\ calls = << >>
    /\ Len(fed) = MSG_BLOCK_SIZE(P)

\* the context of a session on a newly constructed context that has seen
\* the calls s has seen since its reset: s itself, but for the bytes of an
\* unfinalized buffer at and above the cursor, which new left zero
FreshOf(s) ==
    IF s.computed THEN s
    ELSE [s EXCEPT !.msg_block =
            [i \in 1..MSG_BLOCK_SIZE(P) |->
               IF i <= s.msg_block_idx THEN s.msg_block[i] ELSE 0]]

\* the chunk of the input call just made
ChunkGiven ==
    IF op'.empty THEN << >>
    ELSE IF Accepting THEN << at(test_multiblock_msg, Len(fed)) >>
    ELSE << at(test_multiblock_msg, 0) >>

\* the call just made has the status, the digest and the context that the
\* same call has on the newly constructed counterpart
SameAsFresh ==
    /\ op'.name = "input" =>
         \E f \in {input(P, Call(FreshOf(self)), ChunkGiven)} :
           /\ ret' = f.ret
           /\ panicked' = f.panicked
           /\ FreshOf(self') = f.self
           /\ dst' = dst
    /\ op'.name = "final_bits" =>
         \E f \in {final_bits(P, Call(FreshOf(self)), op'.bits, op'.count)} :
           /\ ret' = f.ret
           /\ panicked' = f.panicked
           /\ FreshOf(self') = f.self
           /\ dst' = dst
    /\ op'.name = "result" =>
         \E f \in {result(P, Call(FreshOf(self)), dst)} :
           /\ ret' = f[1].ret
           /\ panicked' = f[1].panicked
           /\ FreshOf(self') = f[1].self
           /\ dst' = f[2]

\* C27: reset leaves a context whose counterpart is the one new makes,
\* whatever the buffer holds, and every call after the reset returns the
\* status and writes the digest that it does on the counterpart, and keeps
\* the two contexts counterparts
C27_ResetEquivalence ==
    [][/\ op'.name = "reset" => (ret' = "Ok" /\ FreshOf(self') = new(P))
       /\ (resets >= 1 /\ op'.name # "reset") => SameAsFresh]_vars

C27_Witness ==
    /\ resets = 1
    /\ op.name = "result"
    /\ calls # << >>
    /\ ret = "Ok"
    /\ Len(fed) = 1
    /\ \E i \in (MSG_BLOCK_SIZE(P) - 7)..MSG_BLOCK_SIZE(P) :
         /\ P = "Sha512Params"
         /\ calls[1].block[i] # 0

\* C28: on every context that accepts bytes the bit-length counter is a
\* multiple of 8, so at most 2^128 - 8; final_bits with a count in 1..7 on
\* such a context returns Ok and finalizes, its overflow branch is not
\* taken, and a call on such a context that returns StateError is an input
C28_FinalBitsNeverOverflows ==
    [][Accepting =>
         /\ self.length[8] % 8 = 0
         /\ (op'.name = "final_bits" /\ op'.count \in 1..7)
            => /\ ret' = "Ok"
               /\ self'.computed
               /\ self'.corrupted = "Success"
         /\ (ret' = "StateError" \/ self'.corrupted = "StateError")
            => op'.name = "input"]_vars

C28_Witness ==
    /\ Finalizing
    /\ op.name = "final_bits"
    /\ op.count = 3
    /\ ret = "Ok"
    /\ SubSeq(LastBlock, 57, 64) = << 255, 255, 255, 255, 255, 255, 255, 251 >>
====
